---- MODULE Spec2Model ----
(***************************************************************************)
(* A model of booker.py: page selection, booklet generation, the           *)
(* try/finally life cycle of its scratch files and the command-line        *)
(* driver.  A path is a sequence of one-character strings, so that the     *)
(* regular expressions of the program act on it as they act on a str.      *)
(* None is the empty sequence <<>> and a present value x is <<x>>.         *)
(***************************************************************************)
EXTENDS Integers, Sequences, FiniteSets, TLC

(* ---------------- bounds of the model ---------------- *)
MaxFiles == 2
MaxPages == 4
MaxMarginsLen == 5

(* ---------------- the interpreter ---------------- *)
\* The script runs under whatever "python3" is (line 1).  Two library
\* behaviours the program depends on differ between interpreters:
\*  - re.sub: "Changed in version 3.7: Empty matches for the pattern are
\*    replaced when adjacent to a previous non-empty match."
\*  - collections.Iterable: alias removed in 3.10 (AttributeError).
\* "3.6" stands for 3.5-3.6, "3.7" for 3.7-3.9, "3.10" for 3.10 and later.
PyVersions == {"3.6", "3.7", "3.10"}

EmptyMatchAdjacent(ver) == ver \in {"3.7", "3.10"}

HasCollectionsIterable(ver) == ver \in {"3.6", "3.7"}

(* ---------------- optional values and strings ---------------- *)
None == <<>>

Some(x) == <<x>>

IsNone(o) == o = <<>>

Val(o) == o[1]

Upper == <<"A","B","C","D","E","F","G","H","I","J","K","L","M",
           "N","O","P","Q","R","S","T","U","V","W","X","Y","Z">>

LowerOf == <<"a","b","c","d","e","f","g","h","i","j","k","l","m",
             "n","o","p","q","r","s","t","u","v","w","x","y","z">>

\* re.IGNORECASE compares characters up to case
Lower(c) ==
  IF \E k \in 1..26 : Upper[k] = c
  THEN LowerOf[CHOOSE k \in 1..26 : Upper[k] = c]
  ELSE c

DigitChar == <<"0","1","2","3","4","5","6","7","8","9">>

\* str(k) / "%d" % k of a natural number
RECURSIVE Str(_)
Str(k) == IF k < 10 THEN <<DigitChar[k + 1]>>
          ELSE Str(k \div 10) \o <<DigitChar[(k % 10) + 1]>>

\* sep.join(parts)
RECURSIVE Join(_, _)
Join(sep, parts) ==
  IF Len(parts) = 0 THEN <<>>
  ELSE IF Len(parts) = 1 THEN parts[1]
  ELSE parts[1] \o sep \o Join(sep, Tail(parts))

\* range(start, stop, step) as a sequence
RECURSIVE Range(_, _, _)
Range(start, stop, step) ==
  IF (step > 0 /\ start >= stop) \/ (step < 0 /\ start <= stop) THEN <<>>
  ELSE <<start>> \o Range(start + step, stop, step)

\* index of the last "." of s, 0 when there is none
LastDot(s) ==
  IF \E k \in 1..Len(s) : s[k] = "."
  THEN CHOOSE k \in 1..Len(s) : s[k] = "." /\ \A j \in (k+1)..Len(s) : s[j] # "."
  ELSE 0

\* re.match(r".*\.EXT$", path, re.IGNORECASE); ext is given with its dot
MatchesExt(path, ext) ==
  /\ Len(path) >= Len(ext)
  /\ \A k \in 1..Len(ext) :
        Lower(path[Len(path) - Len(ext) + k]) = Lower(ext[k])

\* re.sub(r"(.*)(\.[^.]*)", r"\1" + marker + r"\2", path): the greedy (.*)
\* backs off to the last dot, [^.]* then runs to the end; a string without
\* a dot has no match and is returned unchanged.
SubMarker(marker, path) ==
  LET d == LastDot(path) IN
  IF d = 0 THEN path
  ELSE SubSeq(path, 1, d - 1) \o marker \o SubSeq(path, d, Len(path))

BookSuffix == <<"-","b","o","o","k",".","p","d","f">>

\* re.sub(r"(?:(.*)\.[^.]*|([^.]*))$", r"\1\2-book.pdf", path): the first
\* match starts at 0 and covers the whole string (group 1 = the text before
\* the last dot, or group 2 = the whole dot-free string).  From 3.7 on the
\* second alternative then matches the empty string at the end of a
\* non-empty path, and that match is replaced as well.
SubBook(ver, path) ==
  LET d     == LastDot(path)
      stem  == IF d = 0 THEN path ELSE SubSeq(path, 1, d - 1)
      first == stem \o BookSuffix
  IN
  IF EmptyMatchAdjacent(ver) /\ Len(path) > 0 THEN first \o BookSuffix
  ELSE first

(* ---------------- File and its variants ---------------- *)
NoMargins == [kind |-> "none", num |-> 0, seq |-> <<>>]

NumMargins(m) == [kind |-> "num", num |-> m, seq |-> <<>>]

SeqMargins(s) == [kind |-> "seq", num |-> 0, seq |-> s]

\* gen_raw_selection: None stays None, a list becomes "k1,k2,..."
gen_raw_selection(selection) ==
  IF IsNone(selection) THEN None
  ELSE Some(Join(<<",">>, [k \in 1..Len(Val(selection)) |-> Str(Val(selection)[k])]))

\* Python's "a or b" on optional strings: a when it is truthy (present and
\* non-empty), otherwise b
PyOr(a, b) == IF ~IsNone(a) /\ Len(Val(a)) > 0 THEN a ELSE b

\* isinstance(margins, collections.Iterable); only evaluated where the
\* name collections.Iterable exists
IsIterable(margins) == margins.kind = "seq"

\* File.__init__: the stored fields, or the exception raised
FileInit(ver, path, selection, raw_selection, margins) ==
  LET raw == PyOr(raw_selection, gen_raw_selection(selection))
      obj(m) == [path |-> path, selection |-> selection,
                 raw_selection |-> raw, margins |-> m]
  IN
  IF margins.kind = "none" THEN [err |-> "", obj |-> obj(margins)]
  ELSE IF ~HasCollectionsIterable(ver)
       THEN [err |-> "AttributeError", obj |-> obj(margins)]
  ELSE LET m == IF ~IsIterable(margins)
                THEN SeqMargins(<<margins.num, margins.num, margins.num, margins.num>>)
                ELSE margins
       IN IF Len(m.seq) # 4 THEN [err |-> "ValueError: Wrong length of margins vector", obj |-> obj(m)]
          ELSE [err |-> "", obj |-> obj(m)]

\* PDFFile.__init__
PDFFileInit(ver, path, selection, raw_selection, margins) ==
  FileInit(ver, path, selection, raw_selection, margins)

\* faulty variant: the check made on the structured selection only
CPPFileInitStructuredOnly(ver, path, selection, raw_selection, margins) ==
  LET r == FileInit(ver, path, selection, raw_selection, margins) IN
  IF r.err # "" THEN r
  ELSE IF ~IsNone(r.obj.selection)
       THEN [r EXCEPT !.err = "ValueError: Selection is not supported"]
  ELSE r

\* CPPFile.__init__: File.__init__, then the selection check
CPPFileInit(ver, path, selection, raw_selection, margins) ==
  LET r == FileInit(ver, path, selection, raw_selection, margins) IN
  IF r.err # "" THEN r
  ELSE IF ~IsNone(r.obj.raw_selection) THEN [r EXCEPT !.err = "ValueError: Selection is not supported"]
  ELSE r

ExtPdf == <<".","p","d","f">>

ExtCpp == <<".","c","p","p">>

ExtCxx == <<".","c","x","x">>

\* get_file: the variant chosen by the extension; cls is "" on an error
get_file(ver, path, selection, raw_selection, margins) ==
  IF MatchesExt(path, ExtPdf)
  THEN LET r == PDFFileInit(ver, path, selection, raw_selection, margins)
       IN [err |-> r.err, cls |-> IF r.err = "" THEN "PDFFile" ELSE "", obj |-> r.obj]
  ELSE IF MatchesExt(path, ExtCpp) \/ MatchesExt(path, ExtCxx)
  THEN LET r == CPPFileInit(ver, path, selection, raw_selection, margins)
       IN [err |-> r.err, cls |-> IF r.err = "" THEN "CPPFile" ELSE "", obj |-> r.obj]
  ELSE [err |-> "ValueError: Unknown extension", cls |-> "",
        obj |-> [path |-> path, selection |-> selection,
                 raw_selection |-> raw_selection, margins |-> margins]]

(* ---------------- inputs ---------------- *)
ReportPdf == <<"r","e","p","o","r","t",".","p","d","f">>

MainCxx == <<"M","a","i","n",".","C","X","X">>

ScanPDF == <<"S","c","a","n",".","P","D","F">>

NotesTxt == <<"n","o","t","e","s",".","t","x","t">>

Inputs == {ReportPdf, MainCxx, ScanPDF, NotesTxt}

FileLists == UNION {[1..n -> Inputs] : n \in 1..MaxFiles}

\* -s/--select: absent, the empty string, or a page list
Selects == {None, Some(<<>>), Some(<<"1">>)}

\* -m/--margins N (type=int)
MainMargins == {NoMargins, NumMargins(5)}

\* -p/--print PRINTER
Printers == {None, Some(<<"l","p">>)}

\* what the user may type at the prompt
Responses == {<<>>, <<"n">>, <<"N">>}

Options == [files : FileLists, print : Printers, double_paged : BOOLEAN,
            select : Selects, margins : MainMargins]

(* ---------------- state ---------------- *)
VARIABLES
  pyver,           \* the interpreter running the script
  opts,            \* options of main (parse_args)
  pc,              \* position of the run
  i,               \* index of the for loop of main over options.files
  path,            \* main's local "path"
  file,            \* main's local "file" (the File built by get_file)
  book,            \* class of main's local "book", "" before construction
  res,             \* main's local "res"
  exc,             \* the exception being propagated, "" when none
  fs,              \* the paths that exist on the filesystem
  log,             \* the commands run through execute for the current input
                   \* file, in order
  ntemp,           \* number of temporary names handed out
  temps,           \* every scratch file created, with the operation owning it
  content_path,    \* Book.generate
  book_path,       \* SinglePageBook.generate
  pages_count,     \* SinglePageBook.generate
  ps_path,         \* enscript
  page_path_base,  \* pdfselect
  info_pages,      \* pdfselect: info["Pages"]
  pass,            \* which pdfselect call of SinglePageBook.generate runs
  pages,           \* page count pdfinfo reports for the booklet (at least 1)
  j,               \* index of the "for r in res" loop of print mode
  stdout,          \* lines printed by main
  prompts,         \* the prompts answered for the current input file
  cargs,           \* arguments of a direct File construction
  cres             \* its result

mainVars == <<opts, i, path, file, book, res, j, stdout, prompts>>

genVars == <<content_path, book_path, pages_count, ps_path, page_path_base,
             info_pages, pass, pages>>

sysVars == <<fs, log, ntemp, temps>>

ctorVars == <<cargs, cres>>

vars == <<pyver, pc, exc, mainVars, genVars, sysVars, ctorVars>>

NoFile == [cls |-> "", obj |-> [path |-> <<>>, selection |-> None,
                                 raw_selection |-> None, margins |-> NoMargins]]

NoArgs == [ctor |-> "", path |-> <<>>, selection |-> None, raw_selection |-> None,
           margins |-> NoMargins]

NoRes == [err |-> "", cls |-> "unset", obj |-> NoFile.obj]

TmpPrefix == <<"/","t","m","p","/","b","o","o","k","e","r","-">>

SufPdf == <<".","p","d","f">>

SufPs == <<".","p","s">>

SufPage == <<"-","p","a","g","e">>

\* the name mkstemp hands out for the k-th request: the random part is
\* dot-free and differs from every other request's
TmpName(k, suffix) == TmpPrefix \o Str(k) \o suffix

\* page_path_template % k, page_path_template = page_path_base + "-%d.pdf"
PagePath(base, k) == base \o <<"-">> \o Str(k) \o SufPdf

OddMarker == <<"-","o","d","d">>

EvenMarker == <<"-","e","v","e","n">>

\* SinglePageBook.generate, lines 325-326
OddPath(p) == SubMarker(OddMarker, p)

EvenPath(p) == SubMarker(EvenMarker, p)

\* the selections of lines 340 and 341
OddSelection(n) == Range(1, n, 2)

\* faulty variant: the even pages in ascending order
EvenSelectionAscending(n) == Range(2, n + 1, 2)

EvenSelection(n) == Range(n, 1, -2)

Elems(seq) == {seq[k] : k \in 1..Len(seq)}

\* os.remove of each path in order; a missing path raises and ends the loop
RECURSIVE RemoveAll(_, _)
RemoveAll(files, paths) ==
  IF Len(paths) = 0 THEN [fs |-> files, err |-> ""]
  ELSE IF Head(paths) \notin files THEN [fs |-> files, err |-> "FileNotFoundError"]
  ELSE RemoveAll(files \ {Head(paths)}, Tail(paths))

\* one record of log: a command run through execute
\* (n = the number of files it produced)
Cmd(name, ins, out, ok, n) ==
  [cmd |-> name, i |-> i, ins |-> ins, out |-> out, ok |-> ok, n |-> n]

\* effect of execute(...): the command is logged; ok = FALSE is a nonzero exit
\* status.  A command that succeeds has written its output file "out" (<<>>
\* for a command without one); a command that fails has written nothing,
\* pdfseparate apart, whose partial output is modelled where it is run.
Execute(name, ins, out, ok) ==
  /\ log' = Append(log, Cmd(name, ins, out, ok,
                            IF ok /\ out # <<>> THEN 1 ELSE 0))
  /\ fs' = IF ok /\ out # <<>> THEN fs \cup {out} ELSE fs

\* faulty variant: execute called with ignore_error_code=True
RaisedIgnored(ok) == ""

\* execute, lines 91-98: a nonzero exit status raises RuntimeError
Raised(ok) == IF ok THEN "" ELSE "RuntimeError"

\* effect of mktemp(suffix=...) for the operation "owner": a fresh empty file
MkTempOk(owner, suffix) ==
  /\ ntemp' = ntemp + 1
  /\ fs' = fs \cup {TmpName(ntemp + 1, suffix)}
  /\ temps' = temps \cup {[owner |-> owner, path |-> TmpName(ntemp + 1, suffix)]}

\* where an exception leaving book.generate lands in main: the finally block
\* of print mode, or out of main
RaiseInMain == IF IsNone(opts.print) THEN "exit" ELSE "main_finally"

\* where main continues when book.generate has returned
ReturnToMain == IF IsNone(opts.print) THEN "main_output" ELSE "prompt"

\* the "path" argument of Book.generate
BookTarget == IF opts.double_paged THEN path ELSE book_path

\* the locals of a run before main has assigned any of them
Fresh ==
  /\ i = 0
  /\ path = <<>>
  /\ file = NoFile
  /\ book = ""
  /\ res = <<>>
  /\ exc = ""
  /\ log = <<>>
  /\ ntemp = 0
  /\ temps = {}
  /\ content_path = <<>>
  /\ book_path = <<>>
  /\ pages_count = 0
  /\ ps_path = <<>>
  /\ page_path_base = <<>>
  /\ info_pages = 0
  /\ pass = ""
  /\ pages = 0
  /\ j = 0
  /\ stdout = <<>>
  /\ prompts = <<>>

\* a run of main: the input files exist, nothing else does
Init ==
  /\ pyver \in PyVersions
  /\ opts \in Options
  /\ pc = "main"
  /\ fs = Elems(opts.files)
  /\ Fresh
  /\ cargs = NoArgs
  /\ cres = NoRes

(* ---------------- main ---------------- *)
\* entry of book.generate for the book class chosen at line 436
GenerateEntry == IF opts.double_paged THEN "book_mktemp" ELSE "spb_mktemp"

\* faulty variant: the check off by one file
SelectRejectedOffByOne(o) == ~IsNone(o.select) /\ Len(o.files) > 2

\* line 433
SelectRejected(o) == ~IsNone(o.select) /\ Len(o.files) > 1

\* lines 428-436: the --select check
MainStart ==
  /\ pc = "main"
  /\ IF SelectRejected(opts)
     THEN /\ exc' = "ValueError: --select flag is possible for single file"
          /\ pc' = "exit"
          /\ i' = i
     ELSE /\ exc' = exc
          /\ pc' = "get_file"
          /\ i' = 1
  /\ UNCHANGED <<pyver, opts, path, file, book, res, j, stdout, prompts,
                 genVars, sysVars, ctorVars>>

\* lines 438-443 and 449: the loop head, get_file, the book, the target path
GetFile ==
  /\ pc = "get_file"
  /\ LET r == get_file(pyver, opts.files[i], None, opts.select, opts.margins) IN
     IF r.err # ""
     THEN /\ exc' = r.err
          /\ pc' = "exit"
          /\ path' = opts.files[i]
          /\ UNCHANGED <<file, book, res>>
     ELSE /\ exc' = exc
          /\ file' = [cls |-> r.cls, obj |-> r.obj]
          /\ book' = IF opts.double_paged THEN "Book" ELSE "SinglePageBook"
          /\ IF IsNone(opts.print)
             THEN /\ path' = SubBook(pyver, opts.files[i])
                  /\ res' = res
                  /\ pc' = GenerateEntry
             ELSE /\ path' = opts.files[i]
                  /\ res' = <<>>
                  /\ pc' = "print_mktemp"
  /\ log' = <<>>
  /\ prompts' = <<>>
  /\ UNCHANGED <<pyver, opts, i, j, stdout, genVars, fs, ntemp, temps, ctorVars>>

\* line 452, inside the try block of print mode
PrintMktemp ==
  /\ pc = "print_mktemp"
  /\ \E ok \in BOOLEAN :
       IF ok
       THEN /\ MkTempOk("main", SufPdf)
            /\ path' = TmpName(ntemp + 1, SufPdf)
            /\ exc' = exc
            /\ pc' = GenerateEntry
       ELSE /\ exc' = "OSError"
            /\ pc' = "main_finally"
            /\ UNCHANGED <<path, fs, ntemp, temps>>
  /\ log' = log
  /\ UNCHANGED <<pyver, opts, i, file, book, res, j, stdout, prompts,
                 genVars, ctorVars>>

\* continue with the next input file, or leave main
NextFile ==
  IF i < Len(opts.files) THEN pc' = "get_file" /\ i' = i + 1
  ELSE pc' = "exit" /\ i' = i

\* lines 446-447
MainOutput ==
  /\ pc = "main_output"
  /\ stdout' = stdout \o res
  /\ NextFile
  /\ UNCHANGED <<pyver, opts, path, file, book, res, exc, j, prompts,
                 genVars, sysVars, ctorVars>>

\* after one round of "for r in res" in print mode
NextOutput ==
  /\ j' = j + 1
  /\ pc' = IF j + 1 > Len(res) THEN "main_finally" ELSE "prompt"

EOF == <<"EOF">>

\* lines 455-459: input(); a closed stdin raises EOFError
Prompt ==
  /\ pc = "prompt"
  /\ \E a \in Responses \cup {EOF} :
       IF a = EOF
       THEN /\ exc' = "EOFError"
            /\ pc' = "main_finally"
            /\ UNCHANGED <<j, prompts>>
       ELSE /\ exc' = exc
            /\ prompts' = Append(prompts, [i |-> i, r |-> res[j], response |-> a])
            /\ IF a \in {<<"n">>, <<"N">>}
               THEN NextOutput
               ELSE pc' = "lpr" /\ j' = j
  /\ UNCHANGED <<pyver, opts, i, path, file, book, res, stdout,
                 genVars, sysVars, ctorVars>>

\* lines 461-464 and 269-276
Lpr ==
  /\ pc = "lpr"
  /\ \E ok \in BOOLEAN :
       /\ Execute("lpr", <<res[j]>>, <<>>, ok)
       /\ exc' = Raised(ok)
       /\ IF ok THEN NextOutput ELSE pc' = "main_finally" /\ j' = j
  /\ UNCHANGED <<pyver, opts, i, path, file, book, res, stdout, prompts,
                 ntemp, temps, genVars, ctorVars>>

\* lines 466-471: the finally block of print mode
MainFinally ==
  /\ pc = "main_finally"
  /\ LET targets == (IF path \notin Elems(res) THEN <<path>> ELSE <<>>) \o res
         r == RemoveAll(fs, targets)
         e == IF r.err # "" THEN r.err ELSE exc
     IN /\ fs' = r.fs
        /\ exc' = e
        /\ IF e = "" THEN NextFile ELSE pc' = "exit" /\ i' = i
  /\ UNCHANGED <<pyver, opts, path, file, book, res, j, stdout, prompts,
                 log, ntemp, temps, genVars, ctorVars>>

(* ---------------- SinglePageBook.generate ---------------- *)
\* lines 325-330
SpbMktemp ==
  /\ pc = "spb_mktemp"
  /\ \E ok \in BOOLEAN :
       IF ok
       THEN /\ MkTempOk("SinglePageBook.generate", SufPdf)
            /\ book_path' = TmpName(ntemp + 1, SufPdf)
            /\ exc' = exc
            /\ pc' = "book_mktemp"
       ELSE /\ exc' = "OSError"
            /\ pc' = RaiseInMain
            /\ UNCHANGED <<book_path, fs, ntemp, temps>>
  /\ UNCHANGED <<pyver, mainVars, log, content_path, pages_count, ps_path,
                 page_path_base, info_pages, pass, pages, ctorVars>>

\* faulty variant: the assertion left out
ParityUnchecked(n) == TRUE

\* line 338: assert pages_count % 2 == 0
ParityOk(n) == n % 2 = 0

\* lines 336-338: pdfinfo of the booklet, and the parity assertion
SpbPdfinfo ==
  /\ pc = "spb_pdfinfo"
  /\ \E ok \in BOOLEAN, n \in 1..MaxPages :
       /\ Execute("pdfinfo", <<book_path>>, <<>>, ok)
       /\ IF ~ok
          THEN /\ exc' = Raised(ok)
               /\ pc' = "spb_finally"
               /\ UNCHANGED <<pages, pages_count, pass>>
          ELSE /\ pages' = n
               /\ pages_count' = n
               /\ IF ParityOk(n)
                  THEN exc' = exc /\ pass' = "odd" /\ pc' = "sel_pdfinfo"
                  ELSE exc' = "AssertionError" /\ pass' = pass /\ pc' = "spb_finally"
  /\ UNCHANGED <<pyver, mainVars, ntemp, temps, content_path, book_path, ps_path,
                 page_path_base, info_pages, ctorVars>>

\* lines 343-346: the finally block, then the return
SpbFinally ==
  /\ pc = "spb_finally"
  /\ LET r == RemoveAll(fs, <<book_path>>)
         e == IF r.err # "" THEN r.err ELSE exc
     IN /\ fs' = r.fs
        /\ exc' = e
        /\ IF e = ""
           THEN /\ res' = <<OddPath(path), EvenPath(path)>>
                /\ j' = 1
                /\ pc' = ReturnToMain
           ELSE /\ pc' = RaiseInMain
                /\ UNCHANGED <<res, j>>
  /\ UNCHANGED <<pyver, opts, i, path, file, book, stdout, prompts,
                 log, ntemp, temps, genVars, ctorVars>>

(* ---------------- pdfselect ---------------- *)
\* line 192
SelPdfinfo ==
  /\ pc = "sel_pdfinfo"
  /\ \E ok \in BOOLEAN :
       /\ Execute("pdfinfo", <<book_path>>, <<>>, ok)
       /\ exc' = Raised(ok)
       /\ info_pages' = IF ok THEN pages ELSE info_pages
       /\ pc' = IF ok THEN "sel_mktemp" ELSE "spb_finally"
  /\ UNCHANGED <<pyver, mainVars, ntemp, temps, content_path, book_path,
                 pages_count, ps_path, page_path_base, pass, pages, ctorVars>>

\* lines 194-195
SelMktemp ==
  /\ pc = "sel_mktemp"
  /\ \E ok \in BOOLEAN :
       IF ok
       THEN /\ MkTempOk("pdfselect", SufPage)
            /\ page_path_base' = TmpName(ntemp + 1, SufPage)
            /\ exc' = exc
            /\ pc' = "pdfseparate"
       ELSE /\ exc' = "OSError"
            /\ pc' = "spb_finally"
            /\ UNCHANGED <<page_path_base, fs, ntemp, temps>>
  /\ UNCHANGED <<pyver, mainVars, log, content_path, book_path, pages_count,
                 ps_path, info_pages, pass, pages, ctorVars>>

\* lines 198-201 and 175-180: one file per page; a failing pdfseparate may
\* have produced any number of them
Pdfseparate ==
  /\ pc = "pdfseparate"
  /\ \E ok \in BOOLEAN, k \in 0..info_pages :
       /\ ok => k = info_pages
       /\ log' = Append(log, Cmd("pdfseparate", <<book_path>>, page_path_base, ok, k))
       /\ fs' = fs \cup {PagePath(page_path_base, m) : m \in 1..k}
       /\ exc' = Raised(ok)
       /\ pc' = IF ok THEN "pdfunite" ELSE "sel_finally"
  /\ UNCHANGED <<pyver, mainVars, ntemp, temps, genVars, ctorVars>>

\* the selection and output path of the running pdfselect call, lines 340-341
Selection == IF pass = "odd" THEN OddSelection(pages_count)
             ELSE EvenSelection(pages_count)

SelectOut == IF pass = "odd" THEN OddPath(path) ELSE EvenPath(path)

\* line 203
SelectedPages(base, selection) ==
  [m \in 1..Len(selection) |-> PagePath(base, selection[m])]

\* lines 203-208 and 183-188
Pdfunite ==
  /\ pc = "pdfunite"
  /\ \E ok \in BOOLEAN :
       /\ Execute("pdfunite", SelectedPages(page_path_base, Selection),
                  SelectOut, ok)
       /\ exc' = Raised(ok)
       /\ pc' = "sel_finally"
  /\ UNCHANGED <<pyver, mainVars, ntemp, temps, genVars, ctorVars>>

\* faulty variant: the loop of lines 212-215 without the "+ 1"
PageFilesZeroBased(base, n) == {PagePath(base, m) : m \in 0..(n - 1)}

\* lines 212-213: the per-page paths the cleanup loop visits
PageFiles(base, n) == {PagePath(base, m) : m \in 1..n}

\* lines 209-215: the finally block, then back in SinglePageBook.generate
SelFinally ==
  /\ pc = "sel_finally"
  /\ fs' = (fs \ {page_path_base}) \ PageFiles(page_path_base, info_pages)
  /\ IF exc = "" /\ pass = "odd"
     THEN pass' = "even" /\ pc' = "sel_pdfinfo"
     ELSE pass' = pass /\ pc' = "spb_finally"
  /\ UNCHANGED <<pyver, exc, mainVars, log, ntemp, temps, content_path, book_path,
                 pages_count, ps_path, page_path_base, info_pages, pages, ctorVars>>

(* ---------------- Book.generate ---------------- *)
\* line 298
BookMktemp ==
  /\ pc = "book_mktemp"
  /\ \E ok \in BOOLEAN :
       IF ok
       THEN /\ MkTempOk("Book.generate", SufPdf)
            /\ content_path' = TmpName(ntemp + 1, SufPdf)
            /\ exc' = exc
            /\ pc' = IF file.cls = "PDFFile" THEN "pdfjam" ELSE "enscript_mktemp"
       ELSE /\ exc' = "OSError"
            /\ pc' = IF opts.double_paged THEN RaiseInMain ELSE "spb_finally"
            /\ UNCHANGED <<content_path, fs, ntemp, temps>>
  /\ UNCHANGED <<pyver, mainVars, log, book_path, pages_count, ps_path,
                 page_path_base, info_pages, pass, pages, ctorVars>>

\* PDFFile.generate, lines 380-382 and 152-172
Pdfjam ==
  /\ pc = "pdfjam"
  /\ \E ok \in BOOLEAN :
       /\ Execute("pdfjam", <<file.obj.path>>, content_path, ok)
       /\ exc' = Raised(ok)
       /\ pc' = IF ok THEN "pdfbook" ELSE "book_finally"
  /\ UNCHANGED <<pyver, mainVars, ntemp, temps, genVars, ctorVars>>

\* lines 304-310 and 135-149
Pdfbook ==
  /\ pc = "pdfbook"
  /\ \E ok \in BOOLEAN :
       /\ Execute("pdfbook", <<content_path>>, BookTarget, ok)
       /\ exc' = Raised(ok)
       /\ pc' = "book_finally"
  /\ UNCHANGED <<pyver, mainVars, ntemp, temps, genVars, ctorVars>>

\* lines 312-315: the finally block, then the return to the caller
BookFinally ==
  /\ pc = "book_finally"
  /\ LET r == RemoveAll(fs, <<content_path>>)
         e == IF r.err # "" THEN r.err ELSE exc
     IN /\ fs' = r.fs
        /\ exc' = e
        /\ IF opts.double_paged
           THEN IF e = ""
                THEN res' = <<path>> /\ j' = 1 /\ pc' = ReturnToMain
                ELSE pc' = RaiseInMain /\ UNCHANGED <<res, j>>
           ELSE /\ pc' = IF e = "" THEN "spb_pdfinfo" ELSE "spb_finally"
                /\ UNCHANGED <<res, j>>
  /\ UNCHANGED <<pyver, opts, i, path, file, book, stdout, prompts,
                 log, ntemp, temps, genVars, ctorVars>>

(* ---------------- CPPFile.generate / enscript ---------------- *)
\* line 104
EnscriptMktemp ==
  /\ pc = "enscript_mktemp"
  /\ \E ok \in BOOLEAN :
       IF ok
       THEN /\ MkTempOk("enscript", SufPs)
            /\ ps_path' = TmpName(ntemp + 1, SufPs)
            /\ exc' = exc
            /\ pc' = "enscript"
       ELSE /\ exc' = "OSError"
            /\ pc' = "book_finally"
            /\ UNCHANGED <<ps_path, fs, ntemp, temps>>
  /\ UNCHANGED <<pyver, mainVars, log, content_path, book_path, pages_count,
                 page_path_base, info_pages, pass, pages, ctorVars>>

\* lines 107-124
Enscript ==
  /\ pc = "enscript"
  /\ \E ok \in BOOLEAN :
       /\ Execute("enscript", <<file.obj.path>>, ps_path, ok)
       /\ exc' = Raised(ok)
       /\ pc' = IF ok THEN "ps2pdf" ELSE "enscript_finally"
  /\ UNCHANGED <<pyver, mainVars, ntemp, temps, genVars, ctorVars>>

\* lines 126-129
Ps2pdf ==
  /\ pc = "ps2pdf"
  /\ \E ok \in BOOLEAN :
       /\ Execute("ps2pdf", <<ps_path>>, content_path, ok)
       /\ exc' = Raised(ok)
       /\ pc' = "enscript_finally"
  /\ UNCHANGED <<pyver, mainVars, ntemp, temps, genVars, ctorVars>>

\* lines 131-132: the finally block, then back in Book.generate
EnscriptFinally ==
  /\ pc = "enscript_finally"
  /\ LET r == RemoveAll(fs, <<ps_path>>)
         e == IF r.err # "" THEN r.err ELSE exc
     IN /\ fs' = r.fs
        /\ exc' = e
        /\ pc' = IF e = "" THEN "pdfbook" ELSE "book_finally"
  /\ UNCHANGED <<pyver, mainVars, log, ntemp, temps, genVars, ctorVars>>

(* ---------------- the run of main ---------------- *)
Next ==
  \/ MainStart
  \/ GetFile
  \/ PrintMktemp
  \/ MainOutput
  \/ Prompt
  \/ Lpr
  \/ MainFinally
  \/ SpbMktemp
  \/ SpbPdfinfo
  \/ SpbFinally
  \/ SelPdfinfo
  \/ SelMktemp
  \/ Pdfseparate
  \/ Pdfunite
  \/ SelFinally
  \/ BookMktemp
  \/ Pdfjam
  \/ Pdfbook
  \/ BookFinally
  \/ EnscriptMktemp
  \/ Enscript
  \/ Ps2pdf
  \/ EnscriptFinally

Spec == Init /\ [][Next]_vars

(* ---------------- direct construction of a File ---------------- *)
\* structured selections: absent, empty, or a list of page indices
Selections == {None, Some(<<>>), Some(<<1>>), Some(<<3, 12>>)}

SeqsUpTo(S, n) == UNION {[1..k -> S] : k \in 0..n}

CtorMargins ==
  {NoMargins} \cup {NumMargins(m) : m \in {0, 5}}
              \cup {SeqMargins(q) : q \in SeqsUpTo({5, 7}, MaxMarginsLen)}

CtorArgs == [ctor : {"File", "get_file"}, path : Inputs, selection : Selections,
             raw_selection : Selects, margins : CtorMargins]

NoOptions == [files |-> <<>>, print |-> None, double_paged |-> FALSE,
              select |-> None, margins |-> NoMargins]

InitCtor ==
  /\ pyver \in PyVersions
  /\ opts = NoOptions
  /\ pc = "ctor"
  /\ fs = {}
  /\ Fresh
  /\ cargs \in CtorArgs
  /\ cres = NoRes

\* File(path, selection, raw_selection, margins) or get_file(path, ...)
Construct ==
  /\ pc = "ctor"
  /\ pc' = "constructed"
  /\ cres' = IF cargs.ctor = "File"
             THEN LET r == FileInit(pyver, cargs.path, cargs.selection,
                                    cargs.raw_selection, cargs.margins)
                  IN [err |-> r.err, cls |-> IF r.err = "" THEN "File" ELSE "",
                      obj |-> r.obj]
             ELSE get_file(pyver, cargs.path, cargs.selection,
                           cargs.raw_selection, cargs.margins)
  /\ UNCHANGED <<pyver, exc, mainVars, genVars, sysVars, cargs>>

NextCtor == Construct

SpecCtor == InitCtor /\ [][NextCtor]_vars

TypeOK ==
  /\ pc \in {"main", "get_file", "print_mktemp", "main_output", "prompt", "lpr",
             "main_finally", "spb_mktemp", "spb_pdfinfo", "spb_finally",
             "sel_pdfinfo", "sel_mktemp", "pdfseparate", "pdfunite", "sel_finally",
             "book_mktemp", "pdfjam", "pdfbook", "book_finally",
             "enscript_mktemp", "enscript", "ps2pdf", "enscript_finally", "exit",
             "ctor", "constructed"}
  /\ i \in 0..MaxFiles
  /\ pages \in 0..MaxPages

(* ======================= properties ======================= *)
Last(q) == q[Len(q)]

Failed == \E k \in 1..Len(log) : ~log[k].ok

No == {<<"n">>, <<"N">>}

SelectError == "ValueError: --select flag is possible for single file"

SelectionError == "ValueError: Selection is not supported"

\* 1,3,...,n-1 and n,n-2,...,2 written out
AscendingOdd(n) == [k \in 1..(n \div 2) |-> 2 * k - 1]

DescendingEven(n) == [k \in 1..(n \div 2) |-> n - 2 * (k - 1)]

\* C1: when pdfunite has run for a booklet of n pages, n is even, the odd
\* selection is 1,3,...,n-1 and the even selection n,n-2,...,2 (n/2 indices
\* each), the two are disjoint and cover 1..n, and pdfunite was given the
\* per-page files of the running pass in exactly that order, writing the
\* odd or even output path.
C1_OddEvenStreams ==
  (pc = "sel_finally" /\ log # <<>> /\ Last(log).cmd = "pdfunite") =>
    LET n    == pages_count
        e    == Last(log)
        odd  == OddSelection(n)
        even == EvenSelection(n)
    IN /\ n % 2 = 0
       /\ odd = AscendingOdd(n)
       /\ even = DescendingEven(n)
       /\ Len(odd) = n \div 2 /\ Len(even) = n \div 2
       /\ Elems(odd) \cap Elems(even) = {}
       /\ Elems(odd) \cup Elems(even) = 1..n
       /\ e.ins = [k \in 1..(n \div 2) |->
                     PagePath(page_path_base,
                              IF pass = "odd" THEN 2 * k - 1 ELSE n - 2 * (k - 1))]
       /\ e.out = IF pass = "odd" THEN OddPath(path) ELSE EvenPath(path)

C1_Witness ==
  /\ pc = "sel_finally" /\ pass = "even" /\ pages_count = 4
  /\ log # <<>> /\ Last(log).cmd = "pdfunite" /\ Last(log).ok
  /\ Last(log).ins = <<PagePath(page_path_base, 4), PagePath(page_path_base, 2)>>

\* C2: an odd page count of the booklet always ends in the assertion failure,
\* and when it does no pdfseparate or pdfunite has run for this input, no
\* command has written the odd or the even path, and neither path exists
\* (unless an earlier input of the run had the same requested path and left
\* its outputs there).
C2_OddCountFailsEarly ==
  /\ pages_count % 2 = 1 => exc = "AssertionError"
  /\ exc = "AssertionError" =>
       /\ pages_count % 2 = 1
       /\ \A k \in 1..Len(log) :
            /\ log[k].cmd \notin {"pdfseparate", "pdfunite"}
            /\ log[k].out \notin {OddPath(path), EvenPath(path)}
       /\ (OddPath(path) \in fs \/ EvenPath(path) \in fs) =>
            \E k \in 1..(i - 1) : SubBook(pyver, opts.files[k]) = path

C2_Witness ==
  /\ pc = "spb_finally" /\ exc = "AssertionError" /\ pages_count = 3
  /\ OddPath(path) \notin fs /\ EvenPath(path) \notin fs

\* C3: --select with more than one input file ends main with the ValueError
\* at once; at that point the loop has not started, no File or Book exists,
\* no command has run and the filesystem is as it was.
C3_SelectRejectedFirst ==
  /\ (~IsNone(opts.select) /\ Len(opts.files) > 1 /\ pc # "main") =>
        (pc = "exit" /\ exc = SelectError)
  /\ exc = SelectError =>
        /\ i = 0 /\ file = NoFile /\ book = ""
        /\ log = <<>> /\ ntemp = 0 /\ temps = {}
        /\ fs = Elems(opts.files)
        /\ stdout = <<>> /\ prompts = <<>>

C3_Witness ==
  /\ pc = "exit" /\ exc = SelectError
  /\ Len(opts.files) = 2 /\ opts.select = Some(<<"1">>)

\* marker inserted before the final extension of p
InsertBeforeExt(marker, p) ==
  SubSeq(p, 1, LastDot(p) - 1) \o marker \o SubSeq(p, LastDot(p), Len(p))

ReportBookPdf == <<"r","e","p","o","r","t","-","b","o","o","k",".","p","d","f">>

ReportBookOddPdf ==
  <<"r","e","p","o","r","t","-","b","o","o","k","-","o","d","d",".","p","d","f">>

ReportBookEvenPdf ==
  <<"r","e","p","o","r","t","-","b","o","o","k","-","e","v","e","n",".","p","d","f">>

\* the final extension of p, with its dot
FinalExt(p) == SubSeq(p, LastDot(p), Len(p))

\* C4: when not printing, the requested path is the input path with "-book"
\* inserted before its final extension; report.pdf yields exactly
\* report-book-odd.pdf and report-book-even.pdf by default and exactly
\* report-book.pdf with -d; the odd and even paths are the requested path
\* with "-odd" / "-even" inserted before the final extension, distinct from
\* each other and from the requested path.  (Stated for inputs whose final
\* extension is ".pdf", as in the example: the output of any other input is
\* a .pdf file as well, which the sentence does not describe.)
C4_OutputNaming ==
  (pc = "main_output" /\ IsNone(opts.print) /\ FinalExt(opts.files[i]) = ExtPdf) =>
    LET input == opts.files[i] IN
    /\ path = InsertBeforeExt(<<"-","b","o","o","k">>, input)
    /\ res = IF opts.double_paged THEN <<path>>
             ELSE <<InsertBeforeExt(OddMarker, path), InsertBeforeExt(EvenMarker, path)>>
    /\ input = ReportPdf =>
         res = IF opts.double_paged THEN <<ReportBookPdf>>
               ELSE <<ReportBookOddPdf, ReportBookEvenPdf>>
    /\ ~opts.double_paged => res[1] # res[2] /\ res[1] # path /\ res[2] # path

\* C5: in print mode an output is handed to lpr only when its prompt has been
\* answered with something other than n / N, and once the handling of an
\* input file has ended none of the artifacts generated for it (the temporary
\* target path, the odd and even outputs derived from it) exists.
C5_PrintMode ==
  ~IsNone(opts.print) =>
    /\ \A k \in 1..Len(log) :
         log[k].cmd = "lpr" =>
           \E m \in 1..Len(prompts) :
             prompts[m].r = log[k].ins[1] /\ prompts[m].response \notin No
    /\ pc \in {"get_file", "exit"} =>
         \A t \in temps :
           t.owner = "main" =>
             {t.path, OddPath(t.path), EvenPath(t.path)} \cap fs = {}

NonEmpty(o) == ~IsNone(o) /\ Len(Val(o)) > 0

\* C6: get_file on a .cpp/.cxx path with a non-empty selection, raw or
\* structured, fails in the constructor (with the selection ValueError
\* whenever File.__init__ itself passes); in a run of main the failure ends
\* the run before generate is entered, before any command has run and before
\* any temporary file exists.
C6_CppSelectionRejectedAtConstruction ==
  /\ pc = "main" =>
       \A ver \in PyVersions, p \in {q \in Inputs : MatchesExt(q, ExtCpp) \/ MatchesExt(q, ExtCxx)},
          sel \in Selections, raw \in Selects, m \in MainMargins :
         (NonEmpty(sel) \/ NonEmpty(raw)) =>
           LET r == get_file(ver, p, sel, raw, m) IN
           /\ r.err # ""
           /\ FileInit(ver, p, sel, raw, m).err = "" => r.err = SelectionError
  /\ ( /\ i >= 1 /\ pc \notin {"main", "get_file"}
       /\ MatchesExt(opts.files[i], ExtCpp) \/ MatchesExt(opts.files[i], ExtCxx)
       /\ NonEmpty(opts.select) ) =>
        /\ pc = "exit" /\ exc # ""
        /\ opts.margins = NoMargins => exc = SelectionError
        /\ file = NoFile /\ book = ""
        /\ log = <<>> /\ ntemp = 0 /\ temps = {}
        /\ fs = Elems(opts.files)

C6_Witness ==
  /\ pc = "exit" /\ exc = SelectionError
  /\ opts.files = <<MainCxx>> /\ opts.select = Some(<<"1">>)
  /\ log = <<>> /\ ntemp = 0

\* C7: File construction stores a single number M as (M,M,M,M), stores a
\* sequence of length 4 unchanged, rejects a sequence of any other length,
\* and leaves absent margins absent; a constructed File has margins that are
\* absent or of length 4.
C7_MarginsNormalised ==
  (pc = "constructed" /\ cargs.ctor = "File") =>
    LET m == cargs.margins IN
    /\ m.kind = "none" => cres.err = "" /\ cres.obj.margins = NoMargins
    /\ m.kind = "num" =>
         /\ cres.err = ""
         /\ cres.obj.margins = SeqMargins(<<m.num, m.num, m.num, m.num>>)
    /\ (m.kind = "seq" /\ Len(m.seq) = 4) => cres.err = "" /\ cres.obj.margins = m
    /\ (m.kind = "seq" /\ Len(m.seq) # 4) => cres.err # ""
    /\ cres.err = "" =>
         cres.obj.margins.kind = "none" \/ Len(cres.obj.margins.seq) = 4

EnscriptPcs == {"enscript", "ps2pdf", "enscript_finally"}

PdfselectPcs == {"pdfseparate", "pdfunite", "sel_finally"}

BookPcs == {"pdfjam", "enscript_mktemp", "pdfbook", "book_finally"} \cup EnscriptPcs

SpbPcs == {"book_mktemp", "spb_pdfinfo", "sel_pdfinfo", "sel_mktemp", "spb_finally"}
             \cup BookPcs \cup PdfselectPcs

\* the files of one scratch allocation: the file itself and, for pdfselect's
\* template base, the per-page files named after it
ScratchFiles(t) ==
  IF t.owner = "pdfselect"
  THEN {t.path} \cup {PagePath(t.path, k) : k \in 1..MaxPages}
  ELSE {t.path}

\* the operation that made the allocation is still running, on this very file
ScratchLive(t) ==
  \/ t.owner = "enscript" /\ pc \in EnscriptPcs /\ t.path = ps_path
  \/ t.owner = "pdfselect" /\ pc \in PdfselectPcs /\ t.path = page_path_base
  \/ t.owner = "Book.generate" /\ pc \in BookPcs /\ t.path = content_path
  \/ t.owner = "SinglePageBook.generate" /\ pc \in SpbPcs /\ t.path = book_path

\* C8: a scratch file of enscript, pdfselect, Book.generate or
\* SinglePageBook.generate (PostScript file, template base, per-page files,
\* content PDF, booklet PDF) exists only while the operation that created it
\* is running; after the operation has returned or raised it is gone.
C8_ScratchRemoved ==
  \A t \in temps :
    (t.owner # "main" /\ ScratchFiles(t) \cap fs # {}) => ScratchLive(t)

C8_Witness ==
  /\ pc = "spb_finally" /\ exc = "RuntimeError"
  /\ log # <<>> /\ Last(log).cmd = "pdfseparate"
  /\ Last(log).n >= 1 /\ Last(log).n < info_pages
  /\ \A t \in temps : t.owner = "pdfselect" => ScratchFiles(t) \cap fs = {}

\* C9: once a command has returned a nonzero status an exception is pending
\* for the rest of the run, and every later step runs no command, creates no
\* file, prints nothing, prompts for nothing and starts no other input file:
\* it only removes files.
C9_FailFast ==
  /\ [](Failed => exc # "")
  /\ [][Failed => /\ log' = log
                  /\ fs' \subseteq fs
                  /\ ntemp' = ntemp /\ temps' = temps
                  /\ stdout' = stdout /\ prompts' = prompts
                  /\ i' = i]_vars

C9_Witness ==
  /\ pc = "exit" /\ Failed /\ exc = "RuntimeError"
  /\ i < Len(opts.files)
  /\ Last(log).cmd = "pdfbook"

\* C10: no run of main removes an input file.
C10_InputsKept == Elems(opts.files) \subseteq fs
====
